---- MODULE Spec2Model ----
(***************************************************************************)
(* Tenant isolation for the supply-chain data layer.                       *)
(*                                                                         *)
(* The model has three parts:                                              *)
(*   - the tenant context (the module-level slot currentTenantId and its   *)
(*     set / get / clear functions),                                       *)
(*   - the Prisma middleware tenantIsolationMiddleware, which rewrites the *)
(*     parameters of every client call before handing them to next(),      *)
(*   - the storage behind next(): the tables, unique indexes and foreign   *)
(*     keys of the init migration.                                         *)
(* The entity services are the pass-through wrappers of the source: each   *)
(* service method is one client call with the arguments it builds.         *)
(***************************************************************************)
EXTENDS Integers, FiniteSets, Sequences, TLC

(***************************************************************************)
(* Bounds of the exploration.                                              *)
(***************************************************************************)
\* Rows a behaviour may insert after its initial state (ids are never reused).
MaxNew == 2

\* JavaScript null and undefined, and the id no row carries.
Null      == "null"
Undefined == "undefined"
NoId      == 0

Tenants == {"tenant-a", "tenant-b"}
Keys    == {"K1", "K2"}
Modes   == {"TRUCK", "AIR"}

(***************************************************************************)
(* The schema: tables, business keys, foreign keys.                        *)
(***************************************************************************)
ModelNames ==
  {"Supplier", "Product", "Location", "ShipmentRoute", "RiskEvent",
   "Inventory", "User", "RiskEventSupplier", "RiskEventProduct",
   "RiskEventLocation", "RiskEventRoute"}

JunctionModels ==
  {"RiskEventSupplier", "RiskEventProduct", "RiskEventLocation", "RiskEventRoute"}

\* Tables with a single-column unique index (code, sku, code, email).
KeyedModels == {"Supplier", "Product", "Location", "User"}

\* The table the first / second foreign key of a table references
\* (Undefined: the table has no such column).
RefAModel(m) ==
  CASE m = "Product"       -> "Supplier"
    [] m = "ShipmentRoute" -> "Location"
    [] m = "Inventory"     -> "Product"
    [] m \in JunctionModels -> "RiskEvent"
    [] OTHER               -> Undefined

RefBModel(m) ==
  CASE m = "ShipmentRoute"     -> "Location"
    [] m = "Inventory"         -> "Location"
    [] m = "RiskEventSupplier" -> "Supplier"
    [] m = "RiskEventProduct"  -> "Product"
    [] m = "RiskEventLocation" -> "Location"
    [] m = "RiskEventRoute"    -> "ShipmentRoute"
    [] OTHER                   -> Undefined

\* ON DELETE rule of each foreign key.
OnDeleteAAlwaysCascade(m) == "CASCADE"

OnDeleteANoActionOnLinks(m) ==
  IF m \in {"Product", "ShipmentRoute"} THEN "RESTRICT"
  ELSE IF m \in JunctionModels THEN "NO ACTION" ELSE "CASCADE"

OnDeleteA(m) ==
  IF m \in {"Product", "ShipmentRoute"} THEN "RESTRICT" ELSE "CASCADE"

OnDeleteB(m) ==
  IF m = "ShipmentRoute" THEN "RESTRICT" ELSE "CASCADE"

(***************************************************************************)
(* Objects.  A where clause or a data payload is a record over the         *)
(* columns; a column the caller did not name holds Undefined (NoId for the *)
(* id-valued columns).                                                     *)
(***************************************************************************)
EmptyObj ==
  [id |-> NoId, tenantId |-> Undefined, key |-> Undefined, name |-> Undefined,
   refA |-> NoId, refB |-> NoId, transportMode |-> Undefined]

\* { ...obj, tenantId }
SpreadTenant(obj, tenantId) == [obj EXCEPT !.tenantId = tenantId]

VARIABLES
  currentTenantId,  \* the module-level tenant slot
  db,               \* the stored rows of all tables
  nextId,           \* the next primary key storage hands out
  idLimit,          \* the last primary key the exploration lets storage hand out
  last,             \* the most recent client call and its outcome
  requests          \* the logical requests in flight: where each one stands

vars == <<currentTenantId, db, nextId, idLimit, last, requests>>

(***************************************************************************)
(* Tenant context.                                                         *)
(***************************************************************************)
\* JavaScript truthiness of a string-or-null tenant id.
Truthy(tenantId) == tenantId # Null /\ tenantId # ""

getCurrentTenant == currentTenantId

(***************************************************************************)
(* The middleware.  params = [model, action, args], where args carries the *)
(* where clause and the data payload of the call (data is a list: one      *)
(* object, or the elements of the array when isArray).                     *)
(***************************************************************************)
String_toLowerCase(s) ==
  CASE s = "Supplier"          -> "supplier"
    [] s = "Product"           -> "product"
    [] s = "Location"          -> "location"
    [] s = "ShipmentRoute"     -> "shipmentroute"
    [] s = "RiskEvent"         -> "riskevent"
    [] s = "Inventory"         -> "inventory"
    [] s = "User"              -> "user"
    [] s = "RiskEventSupplier" -> "riskeventsupplier"
    [] s = "RiskEventProduct"  -> "riskeventproduct"
    [] s = "RiskEventLocation" -> "riskeventlocation"
    [] s = "RiskEventRoute"    -> "riskeventroute"
    [] s = "AuditLog"          -> "auditlog"
    [] OTHER                   -> s

tenantedModels ==
  {"supplier", "product", "location", "shipmentRoute", "riskEvent",
   "inventory", "user", "riskEventSupplier", "riskEventProduct",
   "riskEventLocation", "riskEventRoute"}

\* Variant: every model counts as tenanted.
isTenantedModelAlways(model) == TRUE

\* params.model?.toLowerCase(), then tenantedModels.includes(modelName)
isTenantedModel(model) ==
  LET modelName == IF model = Undefined THEN Undefined
                   ELSE String_toLowerCase(model)
  IN  modelName # Undefined /\ modelName \in tenantedModels

\* Variant: the guard without the exemption of the raw actions.
tenantRequiredAlsoForRaw(tenantId, action) == ~Truthy(tenantId)

\* The guard at the top of the middleware: does the call throw
\* 'Tenant ID required for database access'?
tenantRequired(tenantId, action) ==
  ~Truthy(tenantId) /\ action # "executeRaw" /\ action # "queryRaw"

ReadOneActions  == {"findUnique", "findFirst", "findFirstOrThrow", "findUniqueOrThrow"}
ReadManyActions == {"findMany", "count", "aggregate", "groupBy"}
UpdateActions   == {"update", "updateMany", "upsert"}
DeleteActions   == {"delete", "deleteMany"}

\* case 'findUnique' ... 'findUniqueOrThrow'
scopeReadOne(args, tenantId) ==
  [args EXCEPT !.where = SpreadTenant(@, tenantId)]

\* case 'findMany' ... 'groupBy'
scopeReadMany(args, tenantId) ==
  [args EXCEPT !.where = SpreadTenant(@, tenantId)]

\* case 'create'
stampCreate(args, tenantId) ==
  [args EXCEPT !.data = <<SpreadTenant(@[1], tenantId)>>]

\* Variant: the array branch stamps only the first element.
stampCreateManyFirstOnly(args, tenantId) ==
  [args EXCEPT !.data = [i \in DOMAIN @ |->
                           IF i = 1 THEN SpreadTenant(@[i], tenantId) ELSE @[i]]]

\* case 'createMany'
stampCreateMany(args, tenantId) ==
  IF args.isArray
  THEN [args EXCEPT !.data = [i \in DOMAIN @ |-> SpreadTenant(@[i], tenantId)]]
  ELSE [args EXCEPT !.data = <<SpreadTenant(@[1], tenantId)>>]

\* case 'update', 'updateMany', 'upsert'
scopeUpdate(args, tenantId) ==
  [args EXCEPT !.where = SpreadTenant(@, tenantId)]

\* case 'delete', 'deleteMany'
scopeDelete(args, tenantId) ==
  [args EXCEPT !.where = SpreadTenant(@, tenantId)]

\* The switch on params.action.
rewriteArgs(action, args, tenantId) ==
  CASE action \in ReadOneActions  -> scopeReadOne(args, tenantId)
    [] action \in ReadManyActions -> scopeReadMany(args, tenantId)
    [] action = "create"          -> stampCreate(args, tenantId)
    [] action = "createMany"      -> stampCreateMany(args, tenantId)
    [] action \in UpdateActions   -> scopeUpdate(args, tenantId)
    [] action \in DeleteActions   -> scopeDelete(args, tenantId)
    [] OTHER                      -> args

\* Variant: the tenant-required guard placed after the model test, so that it
\* covers only the calls on the models the list recognises.
guardAfterModelTest(tenantId, params) ==
  IF ~isTenantedModel(params.model)
  THEN [threw |-> FALSE, params |-> params]
  ELSE IF tenantRequired(tenantId, params.action)
       THEN [threw |-> TRUE, params |-> params]
       ELSE [threw |-> FALSE,
             params |-> [params EXCEPT
                           !.args = rewriteArgs(params.action, @, tenantId)]]

\* The middleware as a function of the tenant it reads and the call's params:
\* either it throws, or it calls next() with the params it returns.
tenantIsolationMiddleware(tenantId, params) ==
  IF tenantRequired(tenantId, params.action)
  THEN [threw |-> TRUE, params |-> params]
  ELSE IF ~isTenantedModel(params.model)
       THEN [threw |-> FALSE, params |-> params]
       ELSE [threw |-> FALSE,
             params |-> [params EXCEPT
                           !.args = rewriteArgs(params.action, @, tenantId)]]

(***************************************************************************)
(* Storage: what next(params) does with the (rewritten) params.            *)
(* A row is a record over the columns plus its table (model) and the       *)
(* history field createdUnder, the tenant that was active when the create  *)
(* that stored the row was issued (no column: it only serves to state the  *)
(* properties).                                                            *)
(***************************************************************************)
RowsOf(d, model) == {r \in d : r.model = model}

\* A row satisfies a where clause: equality on every column the clause names.
Matches(r, where) ==
  /\ where.id = NoId \/ r.id = where.id
  /\ where.tenantId = Undefined \/ r.tenantId = where.tenantId
  /\ where.key = Undefined \/ r.key = where.key
  /\ where.name = Undefined \/ r.name = where.name
  /\ where.refA = NoId \/ r.refA = where.refA
  /\ where.refB = NoId \/ r.refB = where.refB
  /\ where.transportMode = Undefined \/ r.transportMode = where.transportMode

Select(d, model, where) == {r \in RowsOf(d, model) : Matches(r, where)}

\* Variant: the store without the unique indexes on the junction tables.
UniqueOkNoJunctionIndex(d, r) ==
  \A o \in RowsOf(d, r.model) :
    \/ o.id = r.id
    \/ CASE r.model \in KeyedModels   -> o.key # r.key
         [] r.model = "ShipmentRoute" ->
              <<o.tenantId, o.refA, o.refB, o.transportMode>>
                # <<r.tenantId, r.refA, r.refB, r.transportMode>>
         [] r.model = "Inventory"     ->
              <<o.tenantId, o.refA, o.refB>> # <<r.tenantId, r.refA, r.refB>>
         [] OTHER                     -> TRUE

\* Variant: the business keys unique per tenant instead of over the whole table.
UniqueOkKeysPerTenant(d, r) ==
  \A o \in RowsOf(d, r.model) :
    \/ o.id = r.id
    \/ CASE r.model \in KeyedModels   -> <<o.tenantId, o.key>> # <<r.tenantId, r.key>>
         [] r.model = "ShipmentRoute" ->
              <<o.tenantId, o.refA, o.refB, o.transportMode>>
                # <<r.tenantId, r.refA, r.refB, r.transportMode>>
         [] r.model = "Inventory"     ->
              <<o.tenantId, o.refA, o.refB>> # <<r.tenantId, r.refA, r.refB>>
         [] r.model \in JunctionModels -> <<o.refA, o.refB>> # <<r.refA, r.refB>>
         [] OTHER                     -> TRUE

\* Variant: the store without the unique index on inventory.
UniqueOkNoInventoryIndex(d, r) ==
  \A o \in RowsOf(d, r.model) :
    \/ o.id = r.id
    \/ CASE r.model \in KeyedModels   -> o.key # r.key
         [] r.model = "ShipmentRoute" ->
              <<o.tenantId, o.refA, o.refB, o.transportMode>>
                # <<r.tenantId, r.refA, r.refB, r.transportMode>>
         [] r.model \in JunctionModels -> <<o.refA, o.refB>> # <<r.refA, r.refB>>
         [] OTHER                     -> TRUE

\* The unique indexes: may row r be stored next to the rows of d?
UniqueOk(d, r) ==
  \A o \in RowsOf(d, r.model) :
    \/ o.id = r.id
    \/ CASE r.model \in KeyedModels   -> o.key # r.key
         [] r.model = "ShipmentRoute" ->
              <<o.tenantId, o.refA, o.refB, o.transportMode>>
                # <<r.tenantId, r.refA, r.refB, r.transportMode>>
         [] r.model = "Inventory"     ->
              <<o.tenantId, o.refA, o.refB>> # <<r.tenantId, r.refA, r.refB>>
         [] r.model \in JunctionModels -> <<o.refA, o.refB>> # <<r.refA, r.refB>>
         [] OTHER                     -> TRUE

\* The foreign keys of row r point at stored rows of the referenced tables.
ForeignKeysOk(d, r) ==
  /\ RefAModel(r.model) = Undefined
       \/ \E o \in RowsOf(d, RefAModel(r.model)) : o.id = r.refA
  /\ RefBModel(r.model) = Undefined
       \/ \E o \in RowsOf(d, RefBModel(r.model)) : o.id = r.refB

\* NOT NULL columns without a default that the payload must carry.
RequiredOk(model, data) ==
  /\ model \in ModelNames => data.tenantId # Undefined
  /\ model \in KeyedModels => data.key # Undefined
  /\ model = "ShipmentRoute" => data.transportMode # Undefined

NewRow(model, data, id, active) ==
  [id |-> id, model |-> model, tenantId |-> data.tenantId, key |-> data.key,
   name |-> data.name, refA |-> data.refA, refB |-> data.refB,
   transportMode |-> data.transportMode, createdUnder |-> active]

\* INSERT of the payloads items[i..], one statement: all rows or none.
RECURSIVE InsertAll(_, _, _, _, _, _)
InsertAll(d, nid, model, items, i, active) ==
  IF i > Len(items)
  THEN [outcome |-> "ok", db |-> d, nextId |-> nid, rows |-> {}]
  ELSE IF ~RequiredOk(model, items[i])
  THEN [outcome |-> "ValidationError", db |-> d, nextId |-> nid, rows |-> {}]
  ELSE LET r == NewRow(model, items[i], nid, active) IN
       IF ~ForeignKeysOk(d, r) \/ ~UniqueOk(d, r)
       THEN [outcome |-> "ConstraintViolation", db |-> d, nextId |-> nid, rows |-> {}]
       ELSE LET rest == InsertAll(d \cup {r}, nid + 1, model, items, i + 1, active)
            IN  [rest EXCEPT !.rows = @ \cup {r}]

storageCreate(d, nid, model, args, active) ==
  LET res == InsertAll(d, nid, model, args.data, 1, active)
  IN  IF res.outcome = "ok" THEN res
      ELSE [outcome |-> res.outcome, db |-> d, nextId |-> nid, rows |-> {}]

storageFind(d, nid, model, args) ==
  [outcome |-> "ok", db |-> d, nextId |-> nid,
   rows |-> Select(d, model, args.where)]

\* The rows a relation of the include loads for the row r: the row its first
\* ("refA") or second ("refB") foreign key references, or ("links") the
\* junction rows of a risk event, each with the row on its other side.  They
\* are read by key; no tenant filter applies to them.
Related(d, r, relation) ==
  CASE relation = "refA" ->
         {p \in d : p.model = RefAModel(r.model) /\ p.id = r.refA}
    [] relation = "refB" ->
         {p \in d : p.model = RefBModel(r.model) /\ p.id = r.refB}
    [] relation = "links" ->
         LET links == {j \in d : /\ j.model \in JunctionModels
                                 /\ RefAModel(j.model) = r.model
                                 /\ j.refA = r.id}
         IN  links \cup {p \in d : \E j \in links :
                                     p.model = RefBModel(j.model) /\ p.id = j.refB}
    [] OTHER -> {}

\* The related rows a read with { include } returns nested in its rows.
storageInclude(d, rows, include) ==
  UNION {Related(d, r, relation) : r \in rows, relation \in include}

\* The row r after SET of the columns the data payload names.
Updated(r, data) ==
  [r EXCEPT !.tenantId = IF data.tenantId = Undefined THEN @ ELSE data.tenantId,
            !.name     = IF data.name = Undefined THEN @ ELSE data.name]

\* update: the single row the where clause identifies, or record-not-found.
storageUpdate(d, nid, model, args) ==
  LET hit == Select(d, model, args.where) IN
  IF hit = {}
  THEN [outcome |-> "NotFound", db |-> d, nextId |-> nid, rows |-> {}]
  ELSE LET r == CHOOSE x \in hit : TRUE
           u == Updated(r, args.data[1])
       IN  IF ~UniqueOk(d \ {r}, u)
           THEN [outcome |-> "ConstraintViolation", db |-> d, nextId |-> nid,
                 rows |-> {}]
           ELSE [outcome |-> "ok", db |-> (d \ {r}) \cup {u}, nextId |-> nid,
                 rows |-> {u}]

DependentsBySecondKeyOnly(d, gone, rule) ==
  {c \in d :
     \E g \in gone :
       RefBModel(c.model) = g.model /\ c.refB = g.id /\ OnDeleteB(c.model) = rule}

\* updateMany: every row the where clause matches, as one statement.
storageUpdateMany(d, nid, model, args) ==
  LET hit  == Select(d, model, args.where)
      new  == {Updated(r, args.data[1]) : r \in hit}
      rest == d \ hit
  IN  IF \E u \in new : ~UniqueOk(rest \cup (new \ {u}), u)
      THEN [outcome |-> "ConstraintViolation", db |-> d, nextId |-> nid,
            rows |-> {}]
      ELSE [outcome |-> "ok", db |-> rest \cup new, nextId |-> nid, rows |-> new]

\* upsert({ where, create, update }): the update of the row the where clause
\* identifies, or the create when it identifies none.  The args carry the two
\* payloads as data = << create, update >>.
storageUpsert(d, nid, model, args, active) ==
  IF Select(d, model, args.where) = {}
  THEN storageCreate(d, nid, model, [args EXCEPT !.data = <<args.data[1]>>], active)
  ELSE storageUpdate(d, nid, model, [args EXCEPT !.data = <<args.data[2]>>])

\* Rows whose foreign key with the given ON DELETE rule references a row of gone.
Dependents(d, gone, rule) ==
  {c \in d :
     \E g \in gone :
       \/ RefAModel(c.model) = g.model /\ c.refA = g.id /\ OnDeleteA(c.model) = rule
       \/ RefBModel(c.model) = g.model /\ c.refB = g.id /\ OnDeleteB(c.model) = rule}

\* DELETE of the rows in gone: rejected when a RESTRICT key references one of
\* them, else they go together with their CASCADE dependents (which no table
\* references in turn).
storageDelete(d, nid, gone, notFoundIfEmpty) ==
  IF gone = {} /\ notFoundIfEmpty
  THEN [outcome |-> "NotFound", db |-> d, nextId |-> nid, rows |-> {}]
  ELSE IF Dependents(d, gone, "RESTRICT") \ gone # {}
  THEN [outcome |-> "ConstraintViolation", db |-> d, nextId |-> nid, rows |-> {}]
  ELSE [outcome |-> "ok", db |-> d \ (gone \cup Dependents(d, gone, "CASCADE")),
        nextId |-> nid, rows |-> gone]

\* The tables TRUNCATE TABLE t CASCADE empties: t and, transitively, every
\* table with a foreign key into one of them.
RECURSIVE TruncatedWith(_)
TruncatedWith(tables) ==
  LET more == {m \in ModelNames : RefAModel(m) \in tables \/ RefBModel(m) \in tables}
                \ tables
  IN  IF more = {} THEN tables ELSE TruncatedWith(tables \cup more)

\* $executeRawUnsafe('TRUNCATE TABLE "t" CASCADE')
storageExecuteRaw(d, nid, args) ==
  [outcome |-> "ok", nextId |-> nid, rows |-> {},
   db |-> {r \in d : r.model \notin TruncatedWith({args.query})}]

\* $queryRaw: SELECT * FROM "t"
storageQueryRaw(d, nid, args) ==
  [outcome |-> "ok", nextId |-> nid, db |-> d, rows |-> RowsOf(d, args.query)]

\* next(params): the storage round trip of one client call.
next(params, d, nid, active) ==
  CASE params.action \in {"create", "createMany"} ->
         storageCreate(d, nid, params.model, params.args, active)
    [] params.action \in ReadOneActions \cup ReadManyActions ->
         storageFind(d, nid, params.model, params.args)
    [] params.action = "update" ->
         storageUpdate(d, nid, params.model, params.args)
    [] params.action = "updateMany" ->
         storageUpdateMany(d, nid, params.model, params.args)
    [] params.action = "upsert" ->
         storageUpsert(d, nid, params.model, params.args, active)
    [] params.action = "delete" ->
         storageDelete(d, nid, Select(d, params.model, params.args.where), TRUE)
    [] params.action = "deleteMany" ->
         storageDelete(d, nid, Select(d, params.model, params.args.where), FALSE)
    [] params.action = "executeRaw" -> storageExecuteRaw(d, nid, params.args)
    [] params.action = "queryRaw" -> storageQueryRaw(d, nid, params.args)
    [] OTHER ->
         [outcome |-> "ok", db |-> d, nextId |-> nid, rows |-> {}]

\* One client call (prisma.<model>.<action>(args)) issued while `active` is the
\* content of the tenant slot: the middleware, then storage unless it threw.
ClientCall(active, params, d, nid) ==
  LET mw == tenantIsolationMiddleware(active, params) IN
  IF mw.threw
  THEN [outcome |-> "TenantRequired", toStorage |-> FALSE, sent |-> params.args,
        db |-> d, nextId |-> nid, rows |-> {}, nested |-> {}]
  ELSE LET res == next(mw.params, d, nid, active)
       IN  [outcome |-> res.outcome, toStorage |-> TRUE, sent |-> mw.params.args,
            db |-> res.db, nextId |-> res.nextId, rows |-> res.rows,
            nested |-> IF params.action \in ReadOneActions \cup ReadManyActions
                       THEN storageInclude(res.db, res.rows, mw.params.args.include)
                       ELSE {}]

(***************************************************************************)
(* State machine.                                                          *)
(***************************************************************************)
NoCall ==
  [action |-> "none", model |-> Undefined, tenant |-> Null,
   args |-> [where |-> EmptyObj, data |-> <<EmptyObj>>, isArray |-> FALSE,
             query |-> Undefined, include |-> {}],
   sent |-> [where |-> EmptyObj, data |-> <<EmptyObj>>, isArray |-> FALSE,
             query |-> Undefined, include |-> {}],
   outcome |-> "none", toStorage |-> FALSE, rows |-> {}, nested |-> {},
   removed |-> {}]

WhereArgs(where) ==
  [where |-> where, data |-> <<EmptyObj>>, isArray |-> FALSE, query |-> Undefined, include |-> {}]
DataArgs(where, data) ==
  [where |-> where, data |-> <<data>>, isArray |-> FALSE, query |-> Undefined, include |-> {}]

\* The arguments of a raw call: the statement, here the table it names.
RawArgs(table) == [WhereArgs(EmptyObj) EXCEPT !.query = table]

Payload(k, a, b) ==
  [id |-> NoId, tenantId |-> Undefined, key |-> k, name |-> "orig", refA |-> a,
   refB |-> b, transportMode |-> Undefined]

\* The creates of one tenant's test set-up, in order: a supplier, a product of
\* that supplier, a location (the rows get the ids 1, 2, 3).
SetupCalls ==
  << [tenant |-> "tenant-a", model |-> "Supplier", data |-> Payload("K1", NoId, NoId)],
     [tenant |-> "tenant-a", model |-> "Product",  data |-> Payload("K1", 1, NoId)],
     [tenant |-> "tenant-a", model |-> "Location", data |-> Payload("K1", NoId, NoId)] >>

\* The store after the first n set-up creates went through the client.
RECURSIVE AfterSetup(_)
AfterSetup(n) ==
  IF n = 0 THEN [db |-> {}, nextId |-> 1]
  ELSE LET before == AfterSetup(n - 1)
           c      == SetupCalls[n]
           res    == ClientCall(c.tenant,
                                [model |-> c.model, action |-> "create",
                                 args |-> DataArgs(EmptyObj, c.data)],
                                before.db, before.nextId)
       IN  [db |-> res.db, nextId |-> res.nextId]

\* The logical requests of the concurrent scenario and the tenant each acts for.
Requests == {1, 2}

tenantOf(r) == IF r = 1 THEN "tenant-a" ELSE "tenant-b"
keyOf(r)    == IF r = 1 THEN "K1" ELSE "K2"

IdleRequest ==
  [pc |-> "idle", style |-> "none", tenantId |-> Null, previousTenant |-> Null,
   scoped |-> <<>>]

\* A fresh store, or the store right after the set-up; no tenant is active.
InitFrom(n) ==
  /\ currentTenantId = Null
  /\ db = AfterSetup(n).db
  /\ nextId = AfterSetup(n).nextId
  /\ idLimit = AfterSetup(n).nextId + MaxNew - 1
  /\ last = NoCall
  /\ requests = [r \in Requests |-> IdleRequest]

Init == InitFrom(0) \/ InitFrom(Len(SetupCalls))

setCurrentTenant(tenantId) ==
  /\ currentTenantId' = tenantId
  /\ UNCHANGED <<db, nextId, idLimit, last, requests>>

clearCurrentTenant ==
  /\ currentTenantId' = Null
  /\ UNCHANGED <<db, nextId, idLimit, last, requests>>

\* The record of a client call issued while `active` was in the tenant slot:
\* what the caller passed, what the middleware sent on, the outcome, the rows
\* returned or written, and the rows the call removed from the store.
CallRecord(active, model, action, args, res) ==
  [action |-> action, model |-> model, tenant |-> active, args |-> args,
   sent |-> res.sent, outcome |-> res.outcome, toStorage |-> res.toStorage,
   rows |-> res.rows, nested |-> res.nested, removed |-> db \ res.db]

\* A client call issued now, with whatever the tenant slot holds.
Issue(model, action, args) ==
  LET res == ClientCall(getCurrentTenant,
                        [model |-> model, action |-> action, args |-> args],
                        db, nextId)
  IN  /\ db' = res.db
      /\ nextId' = res.nextId
      /\ last' = CallRecord(currentTenantId, model, action, args, res)
      /\ UNCHANGED <<currentTenantId, idLimit, requests>>

\* Ids a caller may connect a new row to: the stored rows of the referenced table.
RefIds(model) ==
  IF model = Undefined THEN {NoId} ELSE {r.id : r \in RowsOf(db, model)}

\* The create payloads explored for a table; the caller may or may not name a
\* tenantId of its own.
CreatePayloads(m) ==
  {[id |-> NoId, tenantId |-> pt, key |-> k, name |-> "orig", refA |-> a,
    refB |-> b, transportMode |-> md] :
     pt \in {Undefined} \cup Tenants,
     k  \in (IF m \in KeyedModels THEN Keys ELSE {Undefined}),
     a  \in RefIds(RefAModel(m)),
     b  \in RefIds(RefBModel(m)),
     md \in (IF m = "ShipmentRoute" THEN Modes ELSE {Undefined})}

\* Ids a caller may name: those of the table's stored rows, and one of no row.
MissingId == idLimit + 1

TargetIds(m) == {r.id : r \in RowsOf(db, m)} \cup {MissingId}

ById(id) == [EmptyObj EXCEPT !.id = id]
ByKey(k) == [EmptyObj EXCEPT !.key = k]

\* <entity>Service.create(data)
Create(m) ==
  /\ nextId <= idLimit
  /\ \E data \in CreatePayloads(m) : Issue(m, "create", DataArgs(EmptyObj, data))

\* prisma.<model>.createMany({ data }): one object, or an array of one or two
\* payloads (the second for the same parents as the first)
CreateMany(m) ==
  \E d1 \in CreatePayloads(m) :
    \/ /\ nextId <= idLimit
       /\ \E arr \in BOOLEAN :
            Issue(m, "createMany",
                  [where |-> EmptyObj, data |-> <<d1>>, isArray |-> arr,
                   query |-> Undefined, include |-> {}])
    \/ /\ nextId + 1 <= idLimit
       /\ \E pt \in {Undefined} \cup Tenants, k \in {d1.key} \cup (Keys \cap {"K2"}) :
            Issue(m, "createMany",
                  [where |-> EmptyObj,
                   data |-> <<d1, [d1 EXCEPT !.tenantId = pt,
                                             !.key = IF m \in KeyedModels THEN k ELSE @]>>,
                   isArray |-> TRUE, query |-> Undefined, include |-> {}])

\* The include the service's findAll and findById pass for the entity:
\* supplier | product, location | originLocation, destinationLocation |
\* suppliers.supplier, products.product, locations.location, routes.route.
ServiceInclude(m) ==
  CASE m = "Product"                      -> {"refA"}
    [] m \in {"Inventory", "ShipmentRoute"} -> {"refA", "refB"}
    [] m = "RiskEvent"                    -> {"links"}
    [] OTHER                              -> {}

\* The arguments of a service read: the where clause and the entity's include.
ReadArgs(m, where) == [WhereArgs(where) EXCEPT !.include = ServiceInclude(m)]

\* <entity>Service.findAll()
FindAll(m) ==
  /\ m # Undefined
  /\ Issue(m, "findMany", ReadArgs(m, EmptyObj))

\* <entity>Service.findById(id)
FindById(m) ==
  \E id \in TargetIds(m) : Issue(m, "findUnique", ReadArgs(m, ById(id)))

\* userService.findByEmail(email), and the same lookup by code or sku
FindByKey(m) ==
  /\ m \in KeyedModels
  /\ \E k \in Keys : Issue(m, "findUnique", WhereArgs(ByKey(k)))

\* prisma.<model>.aggregate({ _count })
Aggregate(m) ==
  /\ m # Undefined
  /\ Issue(m, "aggregate", WhereArgs(EmptyObj))

\* <entity>Service.update(id, data)
Update(m) ==
  \E id \in TargetIds(m) :
    Issue(m, "update", DataArgs(ById(id), [EmptyObj EXCEPT !.name = "new"]))

\* <entity>Service.delete(id)
Delete(m) == \E id \in TargetIds(m) : Issue(m, "delete", WhereArgs(ById(id)))

(***************************************************************************)
(* Specifications.  Each explores the calls of one family of scenarios on  *)
(* the tables the scenarios touch.                                         *)
(***************************************************************************)
\* The entities whose tests read back what each tenant created.
CoreModels == {"Supplier", "Product", "Location", "Inventory", "User"}

\* Creates, deletes and find-all on the core entities, under any mix of tenants.
Next ==
  \/ \E t \in Tenants : setCurrentTenant(t)
  \/ clearCurrentTenant
  \/ \E m \in CoreModels : Create(m)
  \/ \E m \in CoreModels : FindAll(m)
  \/ \E m \in CoreModels : Delete(m)

Spec == Init /\ [][Next]_vars

\* Single and bulk creates on the core entities.
CreateNext ==
  \/ \E t \in Tenants : setCurrentTenant(t)
  \/ \E m \in CoreModels : Create(m)
  \/ \E m \in CoreModels : CreateMany(m)

CreateSpec == Init /\ [][CreateNext]_vars

\* Creates on the entities that carry a business key.
KeyNext ==
  \/ \E t \in Tenants : setCurrentTenant(t)
  \/ \E m \in KeyedModels : Create(m)

KeySpec == Init /\ [][KeyNext]_vars

\* Every kind of call on every table while the slot never holds a tenant id
\* (it is null, or the empty string).
NoTenantNext ==
  \/ setCurrentTenant("")
  \/ clearCurrentTenant
  \/ \E m \in ModelNames : Create(m)
  \/ \E m \in ModelNames : CreateMany(m)
  \/ \E m \in ModelNames : FindAll(m)
  \/ \E m \in ModelNames : FindById(m)
  \/ \E m \in ModelNames : FindByKey(m)
  \/ \E m \in ModelNames : Aggregate(m)
  \/ \E m \in ModelNames : Update(m)
  \/ \E m \in ModelNames : Delete(m)

NoTenantSpec == Init /\ [][NoTenantNext]_vars

\* The service calls on shipment routes and risk events.
RouteEventModels == {"ShipmentRoute", "RiskEvent"}

RouteEventNext ==
  \/ \E t \in Tenants : setCurrentTenant(t)
  \/ \E m \in RouteEventModels : Create(m)
  \/ \E m \in RouteEventModels : FindAll(m)
  \/ \E m \in RouteEventModels : FindById(m)
  \/ \E m \in RouteEventModels : Update(m)
  \/ \E m \in RouteEventModels : Delete(m)

RouteEventSpec == Init /\ [][RouteEventNext]_vars

(***************************************************************************)
(* Two requests served by one process.  Each request selects its tenant    *)
(* and issues its first call before it first awaits; it issues its second  *)
(* call after the await, when the other request may have run in between.   *)
(***************************************************************************)
\* The tenant the middleware applied to a call (null when it rejected the call).
AppliedTenant(res, action) ==
  IF res.outcome = "TenantRequired" THEN Null
  ELSE IF action = "create" THEN res.sent.data[1].tenantId
  ELSE res.sent.where.tenantId

\* A call issued by request r: as Issue, and the request notes the applied tenant.
IssueFor(r, pc, model, action, args) ==
  LET res == ClientCall(currentTenantId',
                        [model |-> model, action |-> action, args |-> args],
                        db, nextId)
  IN  /\ db' = res.db
      /\ nextId' = res.nextId
      /\ last' = CallRecord(currentTenantId', model, action, args, res)
      /\ requests' = [requests EXCEPT
                        ![r].pc = pc,
                        ![r].scoped = Append(@, AppliedTenant(res, action))]
      /\ UNCHANGED idLimit

\* The auth step of a request, setCurrentTenant(tenantOf(r)), or the entry of
\* withTenant(tenantOf(r), operation).
RequestBegin(r) ==
  /\ requests[r].pc = "idle"
  /\ \E style \in {"set", "with"} :
       requests' = [requests EXCEPT
          ![r] = [pc |-> "started", style |-> style, tenantId |-> tenantOf(r),
                  previousTenant |-> IF style = "with" THEN getCurrentTenant
                                     ELSE Null,
                  scoped |-> <<>>]]
  /\ currentTenantId' = tenantOf(r)
  /\ UNCHANGED <<db, nextId, idLimit, last>>

\* The request's first call reaches the middleware: supplierService.create.
RequestCreate(r) ==
  /\ requests[r].pc = "started"
  /\ nextId <= idLimit
  /\ currentTenantId' = currentTenantId
  /\ IssueFor(r, "awaiting", "Supplier", "create",
              DataArgs(EmptyObj, Payload(keyOf(r), NoId, NoId)))

\* The request resumes after its await and issues its second call.
RequestResume(r) ==
  /\ requests[r].pc = "awaiting"
  /\ currentTenantId' = currentTenantId
  /\ IssueFor(r, IF requests[r].style = "with" THEN "returning" ELSE "done",
              "Supplier", "findMany", WhereArgs(EmptyObj))

\* The finally block of withTenant.
RequestFinish(r) ==
  /\ requests[r].pc = "returning"
  /\ currentTenantId' = IF Truthy(requests[r].previousTenant)
                        THEN requests[r].previousTenant ELSE Null
  /\ requests' = [requests EXCEPT ![r].pc = "done"]
  /\ UNCHANGED <<db, nextId, idLimit, last>>

\* A later request on the same process.
RequestAgain(r) ==
  /\ requests[r].pc = "done"
  /\ requests' = [requests EXCEPT ![r] = IdleRequest]
  /\ UNCHANGED <<currentTenantId, db, nextId, idLimit, last>>

ConcNext ==
  \/ \E r \in Requests : RequestBegin(r)
  \/ \E r \in Requests : RequestCreate(r)
  \/ \E r \in Requests : RequestResume(r)
  \/ \E r \in Requests : RequestFinish(r)
  \/ \E r \in Requests : RequestAgain(r)

ConcSpec == Init /\ [][ConcNext]_vars

(***************************************************************************)
(* Risk-event associations: riskEventService.add* / remove* on the four    *)
(* junction tables, on top of a store that holds one risk event of         *)
(* tenant-a and one supplier, product, location and route to attach.       *)
(***************************************************************************)
\* The creates that lead to that store (rows 1..5); the risk event and the
\* route are created with the tenantId in the payload.
AssocSetupCalls ==
  SetupCalls \o
  << [tenant |-> "tenant-a", model |-> "RiskEvent",
      data |-> [Payload(Undefined, NoId, NoId) EXCEPT !.tenantId = "tenant-a"]],
     [tenant |-> "tenant-a", model |-> "ShipmentRoute",
      data |-> [Payload(Undefined, 3, 3) EXCEPT !.tenantId = "tenant-a",
                                                !.transportMode = "TRUCK"]] >>

\* The store after the first n creates of `calls` went through the client.
RECURSIVE AfterCalls(_, _)
AfterCalls(calls, n) ==
  IF n = 0 THEN [db |-> {}, nextId |-> 1]
  ELSE LET before == AfterCalls(calls, n - 1)
           c      == calls[n]
           res    == ClientCall(c.tenant,
                                [model |-> c.model, action |-> "create",
                                 args |-> DataArgs(EmptyObj, c.data)],
                                before.db, before.nextId)
       IN  [db |-> res.db, nextId |-> res.nextId]

\* The initial state on top of the store `calls` leave, with room for MaxNew rows.
InitAfter(calls) ==
  /\ currentTenantId = Null
  /\ db = AfterCalls(calls, Len(calls)).db
  /\ nextId = AfterCalls(calls, Len(calls)).nextId
  /\ idLimit = AfterCalls(calls, Len(calls)).nextId + MaxNew - 1
  /\ last = NoCall
  /\ requests = [r \in Requests |-> IdleRequest]

AssocInit == InitAfter(AssocSetupCalls)

\* riskEventService.addSupplier / addProduct / addLocation / addRoute
\*   (riskEventId, otherId, tenantId)
addAssociation(m) ==
  /\ m \in JunctionModels
  /\ nextId <= idLimit
  /\ \E riskEventId \in RefIds(RefAModel(m)), otherId \in RefIds(RefBModel(m)),
        tenantId \in Tenants :
       Issue(m, "create",
             DataArgs(EmptyObj,
                      [EmptyObj EXCEPT !.tenantId = tenantId,
                                       !.refA = riskEventId, !.refB = otherId]))

\* riskEventService.removeSupplier / removeProduct / removeLocation / removeRoute
\*   (riskEventId, otherId)
removeAssociation(m) ==
  /\ m \in JunctionModels
  /\ \E riskEventId \in RefIds(RefAModel(m)), otherId \in RefIds(RefBModel(m)) :
       Issue(m, "deleteMany",
             WhereArgs([EmptyObj EXCEPT !.refA = riskEventId, !.refB = otherId]))

AssocNext ==
  \/ \E t \in Tenants : setCurrentTenant(t)
  \/ clearCurrentTenant
  \/ \E m \in JunctionModels : addAssociation(m)
  \/ \E m \in JunctionModels : removeAssociation(m)

AssocSpec == AssocInit /\ [][AssocNext]_vars

(***************************************************************************)
(* withTenant(tenantId, operation) on its own: no other request runs, and  *)
(* the operation of frame 1 may itself call withTenant (frame 2).  The     *)
(* slot may hold any value setCurrentTenant accepts, the empty string      *)
(* included.                                                               *)
(***************************************************************************)
TenantArgs == Tenants \cup {""}

\* No withTenant call is in flight.
AllIdle == \A r \in Requests : requests[r].pc = "idle"

\* const previousTenant = getCurrentTenant(); setCurrentTenant(tenantId);
withTenantEnter(r, tenantId) ==
  /\ \/ r = 1 /\ AllIdle
     \/ r = 2 /\ requests[1].pc = "running" /\ requests[2].pc = "idle"
  /\ requests' = [requests EXCEPT
                    ![r] = [pc |-> "running", style |-> "with", tenantId |-> tenantId,
                            previousTenant |-> getCurrentTenant, scoped |-> <<>>]]
  /\ currentTenantId' = tenantId
  /\ UNCHANGED <<db, nextId, idLimit, last>>

\* The frame whose operation is running now.
Innermost(r) ==
  /\ requests[r].pc = "running"
  /\ r = 1 => requests[2].pc = "idle"

\* A client call of the operation; the frame notes the tenant the middleware read.
withTenantCall(r) ==
  /\ Innermost(r)
  /\ Len(requests[r].scoped) < 2
  /\ LET args == WhereArgs(EmptyObj)
         res  == ClientCall(getCurrentTenant,
                            [model |-> "Supplier", action |-> "findMany",
                             args |-> args], db, nextId)
     IN  /\ last' = CallRecord(currentTenantId, "Supplier", "findMany", args, res)
         /\ requests' = [requests EXCEPT ![r].scoped = Append(@, getCurrentTenant)]
         /\ db' = res.db
         /\ nextId' = res.nextId
  /\ UNCHANGED <<currentTenantId, idLimit>>

\* The tenant the finally block leaves in the slot.
restoredTenant(previousTenant) ==
  IF Truthy(previousTenant) THEN previousTenant ELSE Null

\* operation() resolved or threw: the finally block runs.
withTenantSettle(r) ==
  /\ Innermost(r)
  /\ \E settled \in {"resolved", "threw"} :
       requests' = [requests EXCEPT ![r].pc = "done", ![r].style = settled]
  /\ currentTenantId' = restoredTenant(requests[r].previousTenant)
  /\ UNCHANGED <<db, nextId, idLimit, last>>

\* The caller goes on after the settled call.
withTenantReturn(r) ==
  /\ requests[r].pc = "done"
  /\ requests' = [requests EXCEPT ![r] = IdleRequest]
  /\ UNCHANGED <<currentTenantId, db, nextId, idLimit, last>>

WithNext ==
  \/ \E t \in TenantArgs : AllIdle /\ setCurrentTenant(t)
  \/ AllIdle /\ clearCurrentTenant
  \/ \E r \in Requests, t \in TenantArgs : withTenantEnter(r, t)
  \/ \E r \in Requests : withTenantCall(r)
  \/ \E r \in Requests : withTenantSettle(r)
  \/ \E r \in Requests : withTenantReturn(r)

WithSpec == Init /\ [][WithNext]_vars

(***************************************************************************)
(* Raw queries: prisma.$executeRaw(Unsafe) and prisma.$queryRaw(Unsafe)    *)
(* reach the middleware as the actions executeRaw / queryRaw with no model.*)
(***************************************************************************)
\* prisma.$executeRawUnsafe('TRUNCATE TABLE "<table>" CASCADE')
executeRaw(table) ==
  /\ table \in ModelNames
  /\ Issue(Undefined, "executeRaw", RawArgs(table))

\* prisma.$queryRaw`SELECT * FROM "<table>"`
queryRaw(table) ==
  /\ table \in ModelNames
  /\ Issue(Undefined, "queryRaw", RawArgs(table))

\* The tables the raw statements of this exploration name.
RawTables == {"Supplier", "Location", "Inventory"}

RawNext ==
  \/ \E t \in TenantArgs : setCurrentTenant(t)
  \/ clearCurrentTenant
  \/ \E m \in {"Supplier", "Location"} : Create(m)
  \/ \E t \in RawTables : executeRaw(t)
  \/ \E t \in RawTables : queryRaw(t)

RawSpec == Init /\ [][RawNext]_vars

(***************************************************************************)
(* Calls on a model the middleware's list does not name.  The schema has   *)
(* no such table; the middleware is written for any params, so the calls   *)
(* go to a table without tenant column.                                    *)
(***************************************************************************)
UnscopedModels == {"AuditLog"}

UnscopedNext ==
  \/ \E t \in Tenants : setCurrentTenant(t)
  \/ clearCurrentTenant
  \/ \E m \in UnscopedModels : Create(m)
  \/ \E m \in UnscopedModels : FindAll(m)
  \/ \E m \in UnscopedModels : FindById(m)
  \/ \E m \in UnscopedModels : Update(m)
  \/ \E m \in UnscopedModels : Delete(m)

\* The rows of the schema's tables play no part here: the store starts empty.
UnscopedSpec == InitFrom(0) /\ [][UnscopedNext]_vars

(***************************************************************************)
(* Inventory: creates for one product at two locations, on top of a store  *)
(* that holds tenant-a's supplier, product, two locations (rows 3 and 4)   *)
(* and its inventory of the product at the first location.                 *)
(***************************************************************************)
InventorySetupCalls ==
  SetupCalls \o
  << [tenant |-> "tenant-a", model |-> "Location", data |-> Payload("K2", NoId, NoId)],
     [tenant |-> "tenant-a", model |-> "Inventory", data |-> Payload(Undefined, 2, 3)] >>

InventoryInit == InitAfter(InventorySetupCalls)

InventoryNext ==
  \/ \E t \in Tenants : setCurrentTenant(t)
  \/ Create("Inventory")
  \/ FindAll("Inventory")
  \/ Delete("Inventory")

InventorySpec == InventoryInit /\ [][InventoryNext]_vars

(***************************************************************************)
(* Deletes of referenced rows: supplierService / productService /          *)
(* locationService .delete(id) on top of a store that holds tenant-a's     *)
(* supplier (row 1), its two products (rows 2 and 4), two locations (rows  *)
(* 3 and 5), the inventory of each product at the first location (rows 6   *)
(* and 7) and a route that starts and ends at the second location (row 8). *)
(***************************************************************************)
RefSetupCalls ==
  SetupCalls \o
  << [tenant |-> "tenant-a", model |-> "Product",  data |-> Payload("K2", 1, NoId)],
     [tenant |-> "tenant-a", model |-> "Location", data |-> Payload("K2", NoId, NoId)],
     [tenant |-> "tenant-a", model |-> "Inventory", data |-> Payload(Undefined, 2, 3)],
     [tenant |-> "tenant-a", model |-> "Inventory", data |-> Payload(Undefined, 4, 3)],
     [tenant |-> "tenant-a", model |-> "ShipmentRoute",
      data |-> [Payload(Undefined, 5, 5) EXCEPT !.tenantId = "tenant-a",
                                                !.transportMode = "TRUCK"]] >>

RefInit == InitAfter(RefSetupCalls)

RefModels == {"Supplier", "Product", "Location"}

RefNext ==
  \/ \E t \in Tenants : setCurrentTenant(t)
  \/ \E m \in RefModels : Delete(m)
  \/ Create("Inventory")

RefSpec == RefInit /\ [][RefNext]_vars


(***************************************************************************)
(* Deletes of linked risk events and routes: riskEventService.delete(id)   *)
(* and shipmentRouteService.delete(id) on top of the association store     *)
(* (rows 1..5) with the risk event linked to the supplier, the product,    *)
(* the location and the route (rows 6..9).                                 *)
(***************************************************************************)
LinkPayload(otherId) ==
  [EmptyObj EXCEPT !.tenantId = "tenant-a", !.refA = 4, !.refB = otherId]

LinkCalls ==
  << [tenant |-> "tenant-a", model |-> "RiskEventSupplier", data |-> LinkPayload(1)],
     [tenant |-> "tenant-a", model |-> "RiskEventProduct",  data |-> LinkPayload(2)],
     [tenant |-> "tenant-a", model |-> "RiskEventLocation", data |-> LinkPayload(3)],
     [tenant |-> "tenant-a", model |-> "RiskEventRoute",    data |-> LinkPayload(5)] >>

\* The association store.
AssocStore == AfterCalls(AssocSetupCalls, Len(AssocSetupCalls))

\* The store after the first n creates of `calls` went through the client,
\* starting from the store `start`.
RECURSIVE AfterCallsFrom(_, _, _)
AfterCallsFrom(start, calls, n) ==
  IF n = 0 THEN start
  ELSE LET before == AfterCallsFrom(start, calls, n - 1)
           c      == calls[n]
           res    == ClientCall(c.tenant,
                                [model |-> c.model, action |-> "create",
                                 args |-> DataArgs(EmptyObj, c.data)],
                                before.db, before.nextId)
       IN  [db |-> res.db, nextId |-> res.nextId]

LinkedStore == AfterCallsFrom(AssocStore, LinkCalls, Len(LinkCalls))

LinkedInit ==
  /\ currentTenantId = Null
  /\ db = LinkedStore.db
  /\ nextId = LinkedStore.nextId
  /\ idLimit = LinkedStore.nextId + MaxNew - 1
  /\ last = NoCall
  /\ requests = [r \in Requests |-> IdleRequest]

LinkedNext ==
  \/ \E t \in Tenants : setCurrentTenant(t)
  \/ Delete("RiskEvent")
  \/ Delete("ShipmentRoute")
  \/ \E m \in JunctionModels : addAssociation(m)
  \/ \E m \in JunctionModels : removeAssociation(m)

LinkedSpec == LinkedInit /\ [][LinkedNext]_vars

(***************************************************************************)
(* Writes with caller-supplied data: <entity>Service.update(id, data) with *)
(* any update input, and the client's updateMany and upsert, on suppliers  *)
(* on top of tenant-a's set-up.                                            *)
(***************************************************************************)
\* The update inputs explored: a new name, with or without a tenantId.
UpdatePayloads ==
  {[EmptyObj EXCEPT !.name = "new", !.tenantId = pt] : pt \in {Undefined} \cup Tenants}

\* <entity>Service.update(id, data)
UpdateWith(m) ==
  \E id \in TargetIds(m), data \in UpdatePayloads :
    Issue(m, "update", DataArgs(ById(id), data))

\* prisma.<model>.updateMany({ where: {}, data })
UpdateMany(m) ==
  /\ m # Undefined
  /\ \E data \in UpdatePayloads : Issue(m, "updateMany", DataArgs(EmptyObj, data))

\* prisma.<model>.upsert({ where: { id }, create, update })
Upsert(m) ==
  /\ nextId <= idLimit
  /\ \E id \in TargetIds(m), create \in CreatePayloads(m), update \in UpdatePayloads :
       Issue(m, "upsert",
             [where |-> ById(id), data |-> <<create, update>>, isArray |-> FALSE,
              query |-> Undefined, include |-> {}])

WriteModels == {"Supplier"}

WriteNext ==
  \/ \E t \in Tenants : setCurrentTenant(t)
  \/ \E m \in WriteModels : UpdateWith(m)
  \/ \E m \in WriteModels : UpdateMany(m)
  \/ \E m \in WriteModels : Upsert(m)

WriteSpec == InitFrom(Len(SetupCalls)) /\ [][WriteNext]_vars

(***************************************************************************)
(* withTenant calls of concurrent requests: each request calls             *)
(* withTenant(tenantId, operation) once, the awaits of the operations      *)
(* interleave in any order, and the slot is empty before the first call.   *)
(***************************************************************************)
\* const previousTenant = getCurrentTenant(); setCurrentTenant(tenantId);
withTenantStart(r, tenantId) ==
  /\ requests[r].pc = "idle"
  /\ requests' = [requests EXCEPT
                    ![r] = [pc |-> "running", style |-> "with", tenantId |-> tenantId,
                            previousTenant |-> getCurrentTenant, scoped |-> <<>>]]
  /\ currentTenantId' = tenantId
  /\ UNCHANGED <<db, nextId, idLimit, last>>

\* A client call of the operation; the request notes the tenant the middleware read.
withTenantOperation(r) ==
  /\ requests[r].pc = "running"
  /\ Len(requests[r].scoped) < 1
  /\ LET args == WhereArgs(EmptyObj)
         res  == ClientCall(getCurrentTenant,
                            [model |-> "Supplier", action |-> "findMany",
                             args |-> args], db, nextId)
     IN  /\ last' = CallRecord(currentTenantId, "Supplier", "findMany", args, res)
         /\ requests' = [requests EXCEPT ![r].scoped = Append(@, getCurrentTenant)]
         /\ db' = res.db
         /\ nextId' = res.nextId
  /\ UNCHANGED <<currentTenantId, idLimit>>

\* operation() settled: the finally block runs.
withTenantFinally(r) ==
  /\ requests[r].pc = "running"
  /\ requests' = [requests EXCEPT ![r].pc = "done"]
  /\ currentTenantId' = restoredTenant(requests[r].previousTenant)
  /\ UNCHANGED <<db, nextId, idLimit, last>>

OverlapNext ==
  \/ \E r \in Requests, t \in Tenants : withTenantStart(r, t)
  \/ \E r \in Requests : withTenantOperation(r)
  \/ \E r \in Requests : withTenantFinally(r)

OverlapSpec == Init /\ [][OverlapNext]_vars

(***************************************************************************)
(* Calls whose where clause names a tenantId of the caller's choosing:     *)
(* <entity>Service.findAll(where), and the client's updateMany and         *)
(* deleteMany, on suppliers and risk events created under two tenants.     *)
(***************************************************************************)
ByTenant(tenantId) == [EmptyObj EXCEPT !.tenantId = tenantId]

\* <entity>Service.findAll({ tenantId })
FindAllWhere(m) ==
  /\ m # Undefined
  /\ \E wt \in Tenants : Issue(m, "findMany", ReadArgs(m, ByTenant(wt)))

\* prisma.<model>.updateMany({ where: { tenantId }, data: { name } })
UpdateManyWhere(m) ==
  /\ m # Undefined
  /\ \E wt \in Tenants :
       Issue(m, "updateMany", DataArgs(ByTenant(wt), [EmptyObj EXCEPT !.name = "new"]))

\* prisma.<model>.deleteMany({ where: { tenantId } })
DeleteManyWhere(m) ==
  /\ m # Undefined
  /\ \E wt \in Tenants : Issue(m, "deleteMany", WhereArgs(ByTenant(wt)))

FilterModels == {"Supplier", "RiskEvent"}

FilterNext ==
  \/ \E t \in Tenants : setCurrentTenant(t)
  \/ \E m \in FilterModels : Create(m)
  \/ \E m \in FilterModels : FindAllWhere(m)
  \/ \E m \in FilterModels : UpdateManyWhere(m)
  \/ \E m \in FilterModels : DeleteManyWhere(m)

FilterSpec == InitFrom(Len(SetupCalls)) /\ [][FilterNext]_vars

(***************************************************************************)
(* Properties.                                                             *)
(***************************************************************************)
\* The rows of a table that were created while `tenant` was active and are
\* still stored.
CreatedUnder(model, tenant) ==
  {r \in RowsOf(db, model) : r.createdUnder = tenant}

\* C1: a find-all on Supplier, Product, Location, Inventory or User issued
\* while tenant T is active returns exactly the stored rows of that entity that
\* were created under T, and no row whose tenantId differs from T.
C1_FindAllReturnsOwnRows ==
  (last.action = "findMany" /\ last.model \in CoreModels /\ Truthy(last.tenant)) =>
    /\ last.outcome = "ok"
    /\ last.rows = CreatedUnder(last.model, last.tenant)
    /\ \A r \in last.rows \cup last.nested : r.tenantId = last.tenant

\* C2: while two requests for different tenants run interleaved, every call a
\* request issues is scoped or stamped with that request's own tenant.
C2_RequestsKeepTheirTenant ==
  \A r \in Requests :
    \A i \in DOMAIN requests[r].scoped : requests[r].scoped[i] = tenantOf(r)

\* C3: with no active tenant every call on every tenant-scoped entity fails
\* with the tenant-required error, raised before the call reaches storage, and
\* the stored rows never change.
C3_NoTenantRejected ==
  /\ []((last.action # "none" /\ ~Truthy(last.tenant)) =>
          /\ last.outcome = "TenantRequired"
          /\ ~last.toStorage
          /\ last.rows = {}
          /\ last.removed = {})
  /\ [][db' = db /\ nextId' = nextId]_vars

\* C3 happens: with the slot cleared, a delete of a stored supplier by its id was
\* rejected.
C3_Witness ==
  /\ last.action = "delete"
  /\ last.model = "Supplier"
  /\ last.tenant = Null
  /\ last.outcome = "TenantRequired"
  /\ \E r \in RowsOf(db, "Supplier") : r.id = last.args.where.id

\* C4: every create and bulk create on Supplier, Product, Location, Inventory
\* or User issued while tenant T is active stores each of its records with
\* tenantId = T, whatever tenantId the caller's payload carries.
C4_CreateStampsActiveTenant ==
  /\ (last.action \in {"create", "createMany"} /\ last.model \in CoreModels
        /\ last.outcome = "ok") =>
       /\ Truthy(last.tenant)
       /\ Cardinality(last.rows) = Len(last.args.data)
       /\ \A r \in last.rows : r \in db /\ r.tenantId = last.tenant
  /\ \A r \in db : r.model \in CoreModels => r.tenantId = r.createdUnder

\* C4 happens: under tenant-b an array createMany whose second payload names
\* tenant-a stored its two records.
C4_Witness ==
  /\ last.action = "createMany"
  /\ last.args.isArray
  /\ Len(last.args.data) = 2
  /\ last.args.data[2].tenantId = "tenant-a"
  /\ last.tenant = "tenant-b"
  /\ last.outcome = "ok"
  /\ Cardinality(last.rows) = 2

\* C5: a find-all on ShipmentRoute or RiskEvent issued while a tenant is active
\* returns only (and all of) the rows created under that tenant.
C5_RouteEventFindAllIsolated ==
  (last.action = "findMany" /\ last.model \in RouteEventModels
     /\ Truthy(last.tenant)) =>
    last.rows = CreatedUnder(last.model, last.tenant)

\* C6: a ShipmentRoute or RiskEvent created while tenant T is active, with no
\* tenantId in the payload, is stored with tenantId = T (unless a unique index
\* rejects it).
C6_RouteEventCreateStamped ==
  (last.action = "create" /\ last.model \in RouteEventModels
     /\ Truthy(last.tenant) /\ last.args.data[1].tenantId = Undefined
     /\ last.outcome # "ConstraintViolation") =>
    /\ last.outcome = "ok"
    /\ \E r \in last.rows : r \in db /\ r.tenantId = last.tenant

\* The stored row a by-id call names, if any.
Target(call) ==
  {r \in RowsOf(db, call.model) : r.id = call.args.where.id}

\* C7: a read-one by id issued while T2 is active, for a stored row created
\* under another tenant, returns nothing.
C7_ReadOneHidesOtherTenant ==
  (last.action = "findUnique" /\ Truthy(last.tenant)
     /\ \E r \in Target(last) : r.createdUnder # last.tenant) =>
    last.rows = {}

\* C8: an update by id issued while T2 is active never writes a row created
\* under another tenant: it is reported as not found.
C8_UpdateRejectsOtherTenant ==
  (last.action = "update" /\ Truthy(last.tenant)) =>
    /\ \A r \in last.rows : r.createdUnder = last.tenant
    /\ (\E r \in Target(last) : r.createdUnder # last.tenant) =>
         last.outcome = "NotFound"

\* C9: a delete by id issued while T2 is active is rejected when it names a
\* row created under another tenant, and that row stays stored.
C9_DeleteRejectsOtherTenant ==
  (last.action = "delete" /\ Truthy(last.tenant)) =>
    \A r \in last.removed :
      r.id = last.args.where.id => r.createdUnder = last.tenant

\* C10: no delete issued while tenant T is active removes a row whose tenantId
\* differs from T, the rows removed by cascade included.
C10_DeleteRemovesOnlyOwnRows ==
  (last.action \in DeleteActions /\ Truthy(last.tenant)) =>
    \A r \in last.removed : r.tenantId = last.tenant

\* C11: an association added while tenant T is active is stored with
\* tenantId = T, whatever tenantId argument the caller passes.
C11_AssociationStampedWithActiveTenant ==
  (last.action = "create" /\ last.model \in JunctionModels
     /\ Truthy(last.tenant) /\ last.outcome = "ok") =>
    \A r \in last.rows : r.tenantId = last.tenant

\* C12: removing an association while tenant T is active deletes only
\* junction rows whose tenantId is T (stated for the rows that carry the
\* tenant they were added under).
C12_RemoveAssociationOwnRowsOnly ==
  (last.action = "deleteMany" /\ last.model \in JunctionModels
     /\ Truthy(last.tenant)) =>
    \A r \in last.removed :
      r.tenantId = r.createdUnder => r.tenantId = last.tenant

\* The stored junction rows of a table for the pair a payload names.
PairRows(model, data) ==
  {r \in RowsOf(db, model) : r.refA = data.refA /\ r.refB = data.refB}

\* C20: adding an association that already exists fails with a uniqueness
\* violation and leaves exactly one junction row for the pair; no junction
\* table ever holds two rows for one pair.
C20_DuplicateAssociationRejected ==
  /\ (last.action = "create" /\ last.model \in JunctionModels /\ last.toStorage
        /\ PairRows(last.model, last.args.data[1]) \ last.rows # {}) =>
       /\ last.outcome = "ConstraintViolation"
       /\ last.rows = {}
       /\ Cardinality(PairRows(last.model, last.args.data[1])) = 1
  /\ \A r1 \in db : \A r2 \in db :
       (r1.model \in JunctionModels /\ r2.model = r1.model
          /\ r1.refA = r2.refA /\ r1.refB = r2.refB) => r1 = r2

\* C20 happens: under tenant-b, adding a route association that tenant-a already
\* stored was rejected.
C20_Witness ==
  /\ last.action = "create"
  /\ last.model = "RiskEventRoute"
  /\ last.tenant = "tenant-b"
  /\ last.outcome = "ConstraintViolation"
  /\ \E r \in PairRows("RiskEventRoute", last.args.data[1]) : r.tenantId = "tenant-a"

\* C13: for a withTenant(id, operation) call that overlaps no other change of
\* the tenant context (nested calls included), the middleware reads id during
\* the operation, and once the call has settled the slot holds the value it
\* held immediately before the call.
C13_WithTenantRestores ==
  \A r \in Requests :
    /\ requests[r].pc \in {"running", "done"} =>
         \A i \in DOMAIN requests[r].scoped :
           requests[r].scoped[i] = requests[r].tenantId
    /\ requests[r].pc = "done" => getCurrentTenant = requests[r].previousTenant

\* The rows of gone together with every row that references them, directly or
\* through other rows.
RECURSIVE WithDependents(_, _)
WithDependents(d, gone) ==
  LET more == (Dependents(d, gone, "CASCADE") \cup Dependents(d, gone, "RESTRICT"))
                \ gone
  IN  IF more = {} THEN gone ELSE WithDependents(d, gone \cup more)

\* The call recorded in `call`, issued again on the store d.
Replay(call, d, nid) ==
  ClientCall(call.tenant,
             [model |-> call.model, action |-> call.action, args |-> call.args],
             d, nid)

\* C14: the outcome and the returned rows of a call issued under tenant T2 are
\* the same on the store as it is and on the store without any one row of
\* another tenant (and the rows that reference it, when none of them is T2's).
C14_OtherTenantsRowsUnobservable ==
  [][(currentTenantId' = currentTenantId /\ Truthy(last'.tenant)) =>
       \A x \in db :
         LET gone == WithDependents(db, {x}) IN
         (\A g \in gone : g.tenantId # last'.tenant) =>
           LET res == Replay(last', db \ gone, nextId)
           IN  /\ res.outcome = last'.outcome
               /\ res.rows = last'.rows
               /\ res.nested = last'.nested]_vars

\* C15: a raw call (executeRaw, queryRaw) is never rejected for lack of a
\* tenant and reaches storage with the arguments the caller passed, whether a
\* tenant is set or not.
C15_RawQueriesPassThrough ==
  last.action \in {"executeRaw", "queryRaw"} =>
    /\ last.outcome = "ok"
    /\ last.toStorage
    /\ last.sent = last.args

\* C15 happens: with no tenant set, a raw TRUNCATE reached storage and emptied a
\* table that held rows.
C15_Witness ==
  /\ last.action = "executeRaw"
  /\ last.tenant = Null
  /\ last.toStorage
  /\ last.removed # {}
  /\ last.sent.query = "Supplier"

\* C16 as stated: a call on a model outside the tenant-scoped set reaches
\* storage with its arguments unmodified, whether or not a tenant is active.
C16_UnscopedAlwaysPassThrough ==
  (last.action # "none" /\ last.model \in UnscopedModels) =>
    /\ last.toStorage
    /\ last.sent = last.args
    /\ last.outcome # "TenantRequired"

\* C16, amended: while a tenant is active a call on a model outside the
\* tenant-scoped set reaches storage with its arguments unmodified; with no
\* active tenant the middleware rejects it like any other call.
C16_UnscopedPassThroughUnderTenant ==
  (last.action # "none" /\ last.model \in UnscopedModels) =>
    IF Truthy(last.tenant)
    THEN /\ last.toStorage
         /\ last.sent = last.args
         /\ last.outcome # "TenantRequired"
    ELSE /\ ~last.toStorage
         /\ last.outcome = "TenantRequired"

\* C16 happens: under tenant-a a create on such a model stored its row as the
\* caller wrote it, without tenantId.
C16_Witness ==
  /\ last.action = "create"
  /\ last.model \in UnscopedModels
  /\ last.tenant = "tenant-a"
  /\ last.outcome = "ok"
  /\ \E r \in last.rows : r \in db /\ r.tenantId = Undefined

\* The stored rows, other than those the last call wrote, that carry the
\* business key of the last call's payload.
SameKeyRows ==
  {r \in RowsOf(db, last.model) : r.key = last.args.data[1].key} \ last.rows

\* C17: business keys (Supplier code, Product sku, Location code, User email)
\* are unique over the whole store: a create whose key a stored row already
\* carries fails with a constraint violation and stores nothing, whichever
\* tenant stored that row.
C17_BusinessKeysGloballyUnique ==
  /\ (last.action = "create" /\ last.model \in KeyedModels /\ last.toStorage
        /\ SameKeyRows # {}) =>
       /\ last.outcome = "ConstraintViolation"
       /\ last.rows = {}
       /\ Cardinality(SameKeyRows) = 1
  /\ \A r1 \in db : \A r2 \in db :
       (r1.model \in KeyedModels /\ r2.model = r1.model /\ r1.key = r2.key)
         => r1 = r2

\* C17 happens: under tenant-b a create with the code of tenant-a's supplier
\* was rejected.
C17_Witness ==
  /\ last.action = "create"
  /\ last.model = "Supplier"
  /\ last.tenant = "tenant-b"
  /\ last.outcome = "ConstraintViolation"
  /\ \E r \in SameKeyRows : r.tenantId = "tenant-a"

\* The stored routes created under the tenant of the last call, other than
\* those the call wrote, with the origin, destination and transport mode of
\* the call's payload.
SameRouteRows ==
  {r \in CreatedUnder("ShipmentRoute", last.tenant) \ last.rows :
     /\ r.refA = last.args.data[1].refA
     /\ r.refB = last.args.data[1].refB
     /\ r.transportMode = last.args.data[1].transportMode}

\* C18: under one tenant a create of a ShipmentRoute fails with a constraint
\* violation when the tenant already has a route with the same origin,
\* destination and transport mode, and succeeds otherwise (a different
\* transport mode included).
C18_RouteUniquePerTenant ==
  (last.action = "create" /\ last.model = "ShipmentRoute" /\ Truthy(last.tenant)) =>
    IF SameRouteRows # {}
    THEN last.outcome = "ConstraintViolation" /\ last.rows = {}
    ELSE last.outcome = "ok" /\ last.rows # {}

\* The stored inventory rows of the tenant of the last call, other than those
\* the call wrote, for the product and location of the call's payload.
SameInventoryRows ==
  {r \in RowsOf(db, "Inventory") \ last.rows :
     /\ r.tenantId = last.tenant
     /\ r.refA = last.args.data[1].refA
     /\ r.refB = last.args.data[1].refB}

\* C19: under one tenant a create of an Inventory row fails with a constraint
\* violation when the tenant already has a row for the same product and
\* location, and succeeds otherwise (same product, other location included);
\* no tenant ever has two rows for one product and location.
C19_InventoryUniquePerTenant ==
  /\ (last.action = "create" /\ last.model = "Inventory" /\ Truthy(last.tenant)) =>
       IF SameInventoryRows # {}
       THEN last.outcome = "ConstraintViolation" /\ last.rows = {}
       ELSE last.outcome = "ok" /\ \E r \in last.rows : r \in db
  /\ \A r1 \in db : \A r2 \in db :
       (r1.model = "Inventory" /\ r2.model = "Inventory"
          /\ r1.tenantId = r2.tenantId /\ r1.refA = r2.refA /\ r1.refB = r2.refB)
         => r1 = r2

\* C19 happens: a tenant that holds inventory of one product at two locations
\* had a second create for one of the two rejected.
C19_Witness ==
  /\ last.action = "create"
  /\ last.model = "Inventory"
  /\ last.outcome = "ConstraintViolation"
  /\ SameInventoryRows # {}
  /\ \E r \in RowsOf(db, "Inventory") :
       /\ r.tenantId = last.tenant
       /\ r.refA = last.args.data[1].refA
       /\ r.refB # last.args.data[1].refB

\* The stored rows of `model`, before the last call, that reference on their
\* first (refA) or second (refB) key the row the last call names by id.
ReferencingA(model) ==
  {r \in RowsOf(db \cup last.removed, model) : r.refA = last.args.where.id}
ReferencingB(model) ==
  {r \in RowsOf(db \cup last.removed, model) : r.refB = last.args.where.id}

\* The last call is a delete by id of a row of `model` that reached storage
\* and whose (rewritten) where clause matched a stored row.
DeleteHit(model) ==
  /\ last.action = "delete"
  /\ last.model = model
  /\ last.toStorage
  /\ Select(db \cup last.removed, model, last.sent.where) # {}

\* C21: after a successful delete of a Product no Inventory row references
\* that product any more, and the Inventory rows of the other products are
\* all still stored.
C21_ProductDeleteCascadesToInventory ==
  (DeleteHit("Product") /\ last.outcome = "ok") =>
    /\ \A r \in RowsOf(db, "Inventory") : r.refA # last.args.where.id
    /\ \A r \in last.removed :
         r.model = "Inventory" => r.refA = last.args.where.id

\* A product with inventory was deleted while another product's inventory stays.
C21_Witness ==
  /\ DeleteHit("Product")
  /\ last.outcome = "ok"
  /\ \E r \in last.removed : r.model = "Inventory"
  /\ RowsOf(db, "Inventory") # {}

\* C23: deleting a Supplier that a Product references is rejected with a
\* constraint violation, and nothing is removed.
C23_SupplierDeleteRestricted ==
  (DeleteHit("Supplier") /\ ReferencingA("Product") # {}) =>
    /\ last.outcome = "ConstraintViolation"
    /\ last.removed = {}
    /\ ReferencingA("Product") \subseteq db

\* The owner's delete of a supplier with products was rejected.
C23_Witness ==
  /\ DeleteHit("Supplier")
  /\ ReferencingA("Product") # {}
  /\ last.outcome = "ConstraintViolation"

\* C24: deleting a Location that a ShipmentRoute (origin or destination) or
\* an Inventory row references is rejected, and nothing is removed.
C24_LocationDeleteRestricted ==
  (/\ DeleteHit("Location")
   /\ \/ ReferencingA("ShipmentRoute") # {}
      \/ ReferencingB("ShipmentRoute") # {}
      \/ ReferencingB("Inventory") # {}) =>
    /\ last.outcome = "ConstraintViolation"
    /\ last.removed = {}

\* C22: after a successful delete of a RiskEvent no junction row of any of
\* the four kinds references it, and the delete removed nothing but the
\* event and those junction rows: the suppliers, products, locations and
\* routes it was linked to are still stored.
C22_RiskEventDeleteCascadesToLinks ==
  (DeleteHit("RiskEvent") /\ last.outcome = "ok") =>
    /\ \A m \in JunctionModels : ReferencingA(m) \cap db = {}
    /\ \A r \in last.removed :
         \/ r.model = "RiskEvent" /\ r.id = last.args.where.id
         \/ r.model \in JunctionModels /\ r.refA = last.args.where.id

\* A risk event with a link of each kind was deleted, links included, and
\* the four linked rows are still stored.
C22_Witness ==
  /\ DeleteHit("RiskEvent")
  /\ last.outcome = "ok"
  /\ \A m \in JunctionModels : ReferencingA(m) # {} /\ ReferencingA(m) \subseteq last.removed
  /\ \A m \in JunctionModels :
       \A j \in ReferencingA(m) :
         \E e \in RowsOf(db, RefBModel(m)) : e.id = j.refB

\* C25: deleting a ShipmentRoute that a RiskEvent-to-route junction row
\* references is rejected, and nothing is removed.
C25_RouteDeleteRestricted ==
  (DeleteHit("ShipmentRoute") /\ ReferencingB("RiskEventRoute") # {}) =>
    /\ last.outcome = "ConstraintViolation"
    /\ last.removed = {}

\* C26: the tenantId of a stored row never changes: over any update,
\* updateMany or upsert, with any data, a row that stays stored keeps it.
C26_TenantIdNeverChanges ==
  [][\A r \in db : \A u \in db' : u.id = r.id => u.tenantId = r.tenantId]_vars

\* C28: an upsert on a tenant-scoped entity under an active tenant that
\* creates a row gives the row the active tenant's id, whatever tenantId the
\* create payload names.
C28_UpsertCreateStamped ==
  [][(/\ last'.action = "upsert"
      /\ isTenantedModel(last'.model)
      /\ Truthy(last'.tenant)
      /\ nextId' # nextId) =>
       \A r \in db' \ db : r.tenantId = last'.tenant]_vars

\* C27: every stored row references only rows of its own tenant, so a
\* create that connects the new row to a row of another tenant never succeeds.
C27_RowsReferenceOwnTenant ==
  \A r \in db : \A p \in db :
    (\/ p.model = RefAModel(r.model) /\ p.id = r.refA
     \/ p.model = RefBModel(r.model) /\ p.id = r.refB) =>
      p.tenantId = r.tenantId

\* C29: once all the withTenant calls that ran concurrently have settled,
\* getCurrentTenant() returns what it returned before the first of them
\* started (here nothing: the slot was empty); no tenant id set by a
\* finished call stays active.
C29_OverlappingWithTenantRestores ==
  (\A r \in Requests : requests[r].pc = "done") => getCurrentTenant = Null

\* C30: when the where clause of a read, update or delete issued under an
\* active tenant names another tenantId, the call reaches storage with the
\* active tenant's id in its place and matches rows of the active tenant only.
C30_CallerFilterCannotWiden ==
  (/\ last.action \in {"findMany", "updateMany", "deleteMany"}
   /\ last.toStorage
   /\ Truthy(last.tenant)
   /\ last.args.where.tenantId \notin {Undefined, last.tenant}) =>
    /\ last.sent.where.tenantId = last.tenant
    /\ \A r \in last.rows \cup last.removed : r.tenantId = last.tenant

====
